---- MODULE Spec2Model ----
(***************************************************************************)
(* A model of GarminExercisesCollector (src/garmin_exercises_collector.py) *)
(* as a state machine: the object's fields, the locals of the builder that *)
(* is running and the position inside it.  Every HTTP answer (translation  *)
(* text, catalogs, detail documents, image probes) is an input drawn from  *)
(* a small set when the request is made.                                   *)
(***************************************************************************)
EXTENDS Integers, Sequences, FiniteSets, TLC

VARIABLES
    inputs,          \* the family of server answers explored: "run", "rich", "long"
    driver,          \* the method calls the caller makes, in order
    ip,              \* index in driver of the call that is running
    aborted,         \* an exception has left the running call and the caller
    translations,    \* self.translations
    df_exercises,    \* self.df_exercises
    df_yoga,         \* self.df_yoga
    df_pilates,      \* self.df_pilates
    df_mobility,     \* self.df_mobility
    all_muscles,     \* self.all_muscles
    all_equipment,   \* self.all_equipment
    at,              \* position inside the running builder
    data,            \* local: the catalog being iterated, flattened
    pilates_data,    \* local of process_yoga_data: the Pilates catalog, flattened
    pilates_lookup,  \* local of process_yoga_data
    i,               \* local: index in data of the exercise being processed
    rows,            \* local: rows
    row,             \* local: row
    detailed_data,   \* local: detailed_data
    http,            \* what the transport answered for the current exercise
    equipment_data,  \* local of process_equipment_data: the equipment document
    response_text,   \* local of fetch_translations: response.text.splitlines()
    spreadsheet,     \* the spreadsheet the export has found or created, as the service holds it
    sink             \* the values().update calls the spreadsheet service received

vars == <<inputs, driver, ip, aborted, translations, df_exercises, df_yoga, df_pilates,
          df_mobility, all_muscles, all_equipment, at, data, pilates_data,
          pilates_lookup, i, rows, row, detailed_data, http, equipment_data, response_text,
          spreadsheet, sink>>

fields == <<translations, df_exercises, df_yoga, df_pilates, df_mobility,
            all_muscles, all_equipment>>

-----------------------------------------------------------------------------
(* Bounds and program constants *)

\* longest catalog of the ordinary inputs
MaxLen == 2

\* "if len(rows) >= 10: break"
RowLimit == 10

-----------------------------------------------------------------------------
(* Python values *)

\* None, for a DataFrame field that was never assigned
None == [isNone |-> TRUE]

\* d[k] = v on a dict
Put(d, k, v) == (k :> v) @@ d

\* a JSON array, and JSON null (set.update(None) raises TypeError)
JList(s) == [list |-> s]
JNull == [null |-> TRUE]
IsIterable(v) == "list" \in DOMAIN v

Range(s) == {s[k] : k \in DOMAIN s}

-----------------------------------------------------------------------------
(* Strings *)

\* f"{category}_{name}"
JoinKey(category, name) == category \o "_" \o name

\* the fallback name joined like the translation key
FallbackName_Underscore(category, name) == category \o "_" \o name

\* f"{category} {exercise_name}"
FallbackName(category, name) == category \o " " \o name

\* f"MUSCLE_{muscle}"
MuscleCol(muscle) == "MUSCLE_" \o muscle

\* f"EQUIPMENT_{equipment}"
EquipmentCol(equipment) == "EQUIPMENT_" \o equipment

\* col.startswith(prefix)
StartsWith(s, prefix) ==
    /\ Len(s) >= Len(prefix)
    /\ SubSeq(s, 1, Len(prefix)) = prefix

\* index of the first "=" of line at or after k, 0 when there is none
RECURSIVE FindEq(_, _)
FindEq(line, k) ==
    IF k > Len(line) THEN 0
    ELSE IF SubSeq(line, k, k) = "=" THEN k
    ELSE FindEq(line, k + 1)

\* str.strip(), for blanks
RECURSIVE LStrip(_)
LStrip(s) ==
    IF Len(s) > 0 /\ SubSeq(s, 1, 1) = " " THEN LStrip(SubSeq(s, 2, Len(s))) ELSE s

RECURSIVE RStrip(_)
RStrip(s) ==
    IF Len(s) > 0 /\ SubSeq(s, Len(s), Len(s)) = " "
    THEN RStrip(SubSeq(s, 1, Len(s) - 1)) ELSE s

\* str.lstrip() in the place of str.strip()
Strip_LeftOnly(s) == LStrip(s)

Strip(s) == RStrip(LStrip(s))

\* the loop of fetch_translations over response.text.splitlines()
RECURSIVE ParseLines(_, _)
ParseLines(table, lines) ==
    IF lines = <<>> THEN table
    ELSE LET line == Head(lines)
             eq == FindEq(line, 1)
         IN IF eq = 0 THEN ParseLines(table, Tail(lines))
            ELSE ParseLines(Put(table, Strip(SubSeq(line, 1, eq - 1)),
                                Strip(SubSeq(line, eq + 1, Len(line)))),
                            Tail(lines))

\* the dict a fresh collector holds: {}
EmptyDict == [k \in {} |-> ""]

-----------------------------------------------------------------------------
(* Inputs: what the server may answer *)

Muscles == {"CORE", "ABS"}

\* run() with the Yoga build ahead of the Pilates build
RunCalls_YogaFirst == <<"fetch_translations", "process_exercises_data", "process_yoga_data",
                        "process_pilates_data", "process_mobility_data",
                        "export_to_google_sheets">>

\* the calls of run(), in order
RunCalls == <<"fetch_translations", "process_exercises_data", "process_pilates_data",
              "process_yoga_data", "process_mobility_data", "export_to_google_sheets">>

Builders == {"process_exercises_data", "process_pilates_data",
             "process_yoga_data", "process_mobility_data"}

\* one builder called on its own after the translations, then the export
BuilderCalls == {<<"fetch_translations", b, "export_to_google_sheets">> : b \in Builders}

\* a builder on its own is explored on more inputs than the whole run
Rich == inputs = "rich"

\* catalogs longer than the row limit
Long == inputs = "long"

\* the lines of a translation file: a comment, a key given twice, blanks around
\* key and value, "=" inside a value, a line without "="
TranslationLines ==
    << "# exercise types",
       "SIT_UP_TWIST=Twist",
       " SIT_UP_TWIST = Sit-Up=Twist ",
       "CARDIO_JUMPING_JACK" >>

\* a text with an empty key, an empty value, a blank line and the later line of a
\* key the shorter one
OtherTranslationLines ==
    << "SIT_UP_TWIST = B ",
       "=x",
       "CARDIO_JUMPING_JACK==",
       "   ",
       "SIT_UP_TWIST=A=" >>

\* what the translation fetch may answer
TranslationTexts ==
    IF Long THEN {<<>>}
    ELSE IF Rich THEN {TranslationLines}
    ELSE {TranslationLines, OtherTranslationLines}

Ids == << [category |-> "SIT", name |-> "UP_TWIST"],
          [category |-> "SIT_UP", name |-> "TWIST"],
          [category |-> "CARDIO", name |-> "JUMPING_JACK"] >>

\* the muscle lists of a catalog entry, either key optional
ExerciseData ==
    { [primaryMuscles |-> JList(<<"CORE">>)],
      [primaryMuscles |-> JList(<<"ABS">>), secondaryMuscles |-> JList(<<"ABS", "CORE">>)],
      [secondaryMuscles |-> JList(<<"ABS">>)] }

\* the orders in which a catalog lists the identities
IdOrders == {<<1, 2, 3>>, <<2, 3, 1>>}

Min(a, b) == IF a < b THEN a ELSE b

\* catalogs: categories[c].exercises[e] flattened in iteration order, no (c, e) twice
CatalogsOf(orders, maxlen, datas) ==
    UNION { { [k \in 1..n |-> [category |-> Ids[o[k]].category,
                               name |-> Ids[o[k]].name,
                               data |-> d[k]]] :
              d \in [1..n -> datas] } :
            o \in orders, n \in 0..Min(maxlen, Len(Ids)) }

\* a catalog of n exercises in one category; the last one alone uses ABS
LongCatalog(n) ==
    [k \in 1..n |-> [category |-> "CORE", name |-> "PLANK_" \o ToString(k),
                     data |-> IF k = n THEN [primaryMuscles |-> JList(<<"ABS">>)]
                              ELSE [primaryMuscles |-> JList(<<"CORE">>)]]]

\* what a catalog fetch may answer; the whole run is explored on one-entry catalogs
Catalogs ==
    IF Rich THEN CatalogsOf(IdOrders, MaxLen, ExerciseData)
    ELSE IF Long THEN {LongCatalog(RowLimit + 1)}
    ELSE CatalogsOf({<<3, 1, 2>>}, 1,
                    {d \in ExerciseData : "primaryMuscles" \in DOMAIN d})

\* what the two catalog fetches of process_yoga_data may answer
YogaCatalogs ==
    IF Rich THEN CatalogsOf(IdOrders, MaxLen,
                            {d \in ExerciseData : DOMAIN d = {"primaryMuscles",
                                                              "secondaryMuscles"}})
    ELSE Catalogs

PilatesCatalogs ==
    IF Rich THEN CatalogsOf(IdOrders, MaxLen,
                            {d \in ExerciseData : DOMAIN d /= {"primaryMuscles",
                                                               "secondaryMuscles"}})
    ELSE IF Long THEN {LongCatalog(RowLimit), LongCatalog(RowLimit + 1)}
    ELSE Catalogs

\* detail documents, every key optional
FullDoc ==
    [difficulty |-> "EASY", description |-> "Lie down.", heroImage |-> "/hero.png",
     videos |-> << [thumbnail |-> "/thumb.png"] >>,
     primaryMuscles |-> JList(<<"ABS">>),
     secondaryMuscles |-> JList(<<"ABS", "CORE">>)]

DetailDocs ==
    IF Rich
    THEN { FullDoc,
           [difficulty |-> "HARD", heroImage |-> "",
            videos |-> << [thumbnail |-> "/thumb.png"] >>],
           [description |-> "Jump.", heroImage |-> "/hero.png",
            primaryMuscles |-> JList(<<"ABS">>), secondaryMuscles |-> JNull],
           [heroImage |-> "/hero.png", videos |-> <<>>,
            secondaryMuscles |-> JList(<<"CORE">>)] }
    ELSE IF Long THEN { [difficulty |-> "EASY"] }
    ELSE { FullDoc }

\* requests.head(url): a status code, or the request raises
ProbeOutcomes == {"200", "404", "raise"}

-----------------------------------------------------------------------------
(* Initial state: a fresh collector, __init__ *)

NoHttp == [detail |-> "none", hero |-> "none", thumbnail |-> "none"]
NoRow == [CATEGORY_GARMIN |-> "", NAME_GARMIN |-> ""]
NoDoc == [unset |-> TRUE]

InitFields ==
    /\ ip = 1
    /\ aborted = FALSE
    /\ translations = EmptyDict
    /\ df_exercises = None
    /\ df_yoga = None
    /\ df_pilates = None
    /\ df_mobility = None
    /\ all_muscles = {}
    /\ all_equipment = {}
    /\ at = "call"
    /\ data = <<>>
    /\ pilates_data = <<>>
    /\ pilates_lookup = EmptyDict
    /\ i = 1
    /\ rows = <<>>
    /\ row = NoRow
    /\ detailed_data = NoDoc
    /\ http = NoHttp
    /\ equipment_data = <<>>
    /\ response_text = <<>>
    /\ spreadsheet = None
    /\ sink = <<>>

\* the call that is running
Current == IF ~aborted /\ ip <= Len(driver) THEN driver[ip] ELSE "done"

locals == <<data, pilates_data, pilates_lookup, i, rows, row, detailed_data, http>>

\* the running call returns to the caller
Return ==
    /\ ip' = ip + 1
    /\ at' = "call"
    /\ UNCHANGED <<inputs, spreadsheet, response_text, equipment_data, sink, driver, aborted>>

\* an exception propagates out of the running call and out of the caller
Raise ==
    /\ aborted' = TRUE
    /\ at' = "call"
    /\ UNCHANGED <<inputs, spreadsheet, response_text, equipment_data, sink, driver, ip>>

-----------------------------------------------------------------------------
(* fetch_translations *)

fetch_translations ==
    /\ Current = "fetch_translations"
    /\ \/ \E text \in TranslationTexts :
            /\ response_text' = text
            /\ translations' = ParseLines(translations, text)
            /\ ip' = ip + 1
            /\ at' = "call"
            /\ UNCHANGED <<inputs, spreadsheet, equipment_data, sink, driver, aborted>>
       \/ \* raise_for_status() or the request raises
          /\ Raise
          /\ UNCHANGED translations
    /\ UNCHANGED <<df_exercises, df_yoga, df_pilates, df_mobility, all_muscles,
                   all_equipment, locals>>

\* get_exercise_name, with the caller's try/except around it
get_exercise_name(category, name) ==
    LET key == JoinKey(category, name)
    IN IF key \notin DOMAIN translations
       THEN [raised |-> TRUE, value |-> ""]
       ELSE [raised |-> FALSE, value |-> translations[key]]

ResolveName(category, name) ==
    LET r == get_exercise_name(category, name)
    IN IF r.raised THEN FallbackName(category, name) ELSE r.value

-----------------------------------------------------------------------------
(* The steps all four builders share *)

\* the builder that is running
InBuilder == Current \in Builders

\* dict.get(key, "")
Get(d, key) == IF key \in DOMAIN d THEN d[key] ELSE ""

\* f"{self.detailed_page_based_url}{category}/{exercise_name}"
PageUrl(category, name) ==
    "https://connect.garmin.com/modern/exercises/" \o category \o "/" \o name

\* "for muscle in ...['primaryMuscles']: row[f'MUSCLE_{muscle}'] = 1"
RECURSIVE MarkPrimary(_, _)
MarkPrimary(r, muscles) ==
    IF muscles = <<>> THEN r
    ELSE MarkPrimary(Put(r, MuscleCol(Head(muscles)), 1), Tail(muscles))

\* MarkSecondary without the "not in row" test
RECURSIVE MarkSecondary_Overwrites(_, _)
MarkSecondary_Overwrites(r, muscles) ==
    IF muscles = <<>> THEN r
    ELSE MarkSecondary_Overwrites(Put(r, MuscleCol(Head(muscles)), 2), Tail(muscles))

\* "if f'MUSCLE_{muscle}' not in row: row[f'MUSCLE_{muscle}'] = 2"
RECURSIVE MarkSecondary(_, _)
MarkSecondary(r, muscles) ==
    IF muscles = <<>> THEN r
    ELSE MarkSecondary(IF MuscleCol(Head(muscles)) \in DOMAIN r
                       THEN r
                       ELSE Put(r, MuscleCol(Head(muscles)), 2),
                       Tail(muscles))

\* "if key in src: self.all_muscles.update(src[key]); for muscle in src[key]: ..."
\* on the row being built; update() of a value that is no list raises
Annotate(src, key, r) ==
    IF key \notin DOMAIN src THEN [raised |-> FALSE, row |-> r, seen |-> {}]
    ELSE IF ~IsIterable(src[key]) THEN [raised |-> TRUE, row |-> r, seen |-> {}]
    ELSE [raised |-> FALSE,
          row |-> IF key = "primaryMuscles"
                  THEN MarkPrimary(r, src[key].list)
                  ELSE MarkSecondary(r, src[key].list),
          seen |-> Range(src[key].list)]

\* the catalog fetch that opens process_exercises_data, process_pilates_data and
\* process_mobility_data
fetch_catalog ==
    /\ Current \in Builders \ {"process_yoga_data"}
    /\ at = "call"
    /\ \/ \E catalog \in Catalogs :
            /\ data' = catalog
            /\ rows' = <<>>
            /\ i' = 1
            /\ at' = "loop"
            /\ UNCHANGED <<inputs, spreadsheet, response_text, equipment_data, sink, driver, ip, aborted>>
       \/ \* fetch_json raises
          /\ Raise
          /\ UNCHANGED <<data, rows, i>>
    /\ UNCHANGED <<fields, pilates_data, pilates_lookup, row, detailed_data, http>>

\* "pilates_lookup[f'{category}_{exercise_name}'] = exercise_data" over the catalog
RECURSIVE BuildLookup(_, _)
BuildLookup(lookup, catalog) ==
    IF catalog = <<>> THEN lookup
    ELSE BuildLookup(Put(lookup, JoinKey(Head(catalog).category, Head(catalog).name),
                         Head(catalog).data),
                     Tail(catalog))

\* the two catalog fetches and the lookup that open process_yoga_data
yoga_fetch_catalogs ==
    /\ Current = "process_yoga_data"
    /\ at = "call"
    /\ \/ \E yoga \in YogaCatalogs, pilates \in PilatesCatalogs :
            /\ data' = yoga
            /\ pilates_data' = pilates
            /\ pilates_lookup' = BuildLookup(EmptyDict, pilates)
            /\ rows' = <<>>
            /\ i' = 1
            /\ at' = "loop"
            /\ UNCHANGED <<inputs, spreadsheet, response_text, equipment_data, sink, driver, ip, aborted>>
       \/ /\ Raise
          /\ UNCHANGED <<data, pilates_data, pilates_lookup, rows, i>>
    /\ UNCHANGED <<fields, row, detailed_data, http>>

\* the head of the loop body: the row limit, the identity columns and the name
begin_row ==
    /\ InBuilder
    /\ at = "loop"
    /\ i <= Len(data)
    /\ IF Len(rows) >= RowLimit
       THEN \* break: no further row from this catalog
            /\ i' = i + 1
            /\ UNCHANGED <<at, row, http, detailed_data>>
       ELSE /\ row' = [CATEGORY_GARMIN |-> data[i].category,
                       NAME_GARMIN |-> data[i].name,
                       Name |-> ResolveName(data[i].category, data[i].name)]
            /\ http' = NoHttp
            /\ detailed_data' = NoDoc
            /\ at' = IF Current = "process_yoga_data" THEN "lookup" ELSE "detail"
            /\ UNCHANGED i
    /\ UNCHANGED <<inputs, spreadsheet, response_text, equipment_data, sink, driver, ip, aborted, fields, data, pilates_data, pilates_lookup, rows>>

\* "detailed_data = self.fetch_json(detailed_data_url)" and the four fields
fetch_detail ==
    /\ InBuilder
    /\ at = "detail"
    /\ \/ \E doc \in DetailDocs :
            /\ detailed_data' = doc
            /\ row' = Put(Put(Put(Put(row, "DETAILED_INFO", TRUE),
                                  "URL", PageUrl(row.CATEGORY_GARMIN, row.NAME_GARMIN)),
                              "DIFFICULTY", Get(doc, "difficulty")),
                          "DESCRIPTION", Get(doc, "description"))
            /\ http' = [http EXCEPT !.detail = "ok"]
            /\ at' = "image"
       \/ \* the request, raise_for_status() or response.json() raises
          /\ http' = [http EXCEPT !.detail = "error"]
          /\ at' = "except"
          /\ UNCHANGED <<detailed_data, row>>
    /\ UNCHANGED <<inputs, spreadsheet, response_text, equipment_data, sink, driver, ip, aborted, fields, data, pilates_data, pilates_lookup,
                   i, rows>>

HeroUrl(doc) == "https://connect.garmin.com" \o doc.heroImage
ThumbnailUrl(doc) == "https://connectvideo.garmin.com" \o doc.videos[1].thumbnail

\* "'heroImage' in detailed_data and detailed_data['heroImage']"
HasHero(doc) == "heroImage" \in DOMAIN doc /\ doc.heroImage /= ""

\* "detailed_data.get('videos') and detailed_data['videos'][0].get('thumbnail')"
HasThumbnail(doc) ==
    /\ "videos" \in DOMAIN doc
    /\ doc.videos /= <<>>
    /\ "thumbnail" \in DOMAIN doc.videos[1]
    /\ doc.videos[1].thumbnail /= ""

\* AfterImage when the Pilates and Mobility builders skip the catalog lists
AfterImage_SkipsCatalog ==
    IF Current = "process_exercises_data" THEN "primary" ELSE "append"

\* where the try block goes on after the image
AfterImage ==
    CASE Current = "process_exercises_data" -> "primary"
      [] Current = "process_yoga_data" -> "append"
      [] OTHER -> "cprimary"

\* "Get image": the hero probe, then the thumbnail probe when IMAGE is still empty
probe_image ==
    /\ InBuilder
    /\ at = "image"
    /\ \E hero \in (IF HasHero(detailed_data) THEN ProbeOutcomes ELSE {"none"}) :
         LET row1 == Put(row, "IMAGE", "")
             row2 == IF hero = "200" THEN Put(row1, "IMAGE", HeroUrl(detailed_data))
                     ELSE row1
         IN IF hero = "raise"
            THEN /\ row' = row1
                 /\ http' = [http EXCEPT !.hero = hero]
                 /\ at' = "except"
            ELSE \E thumbnail \in (IF row2.IMAGE = "" /\ HasThumbnail(detailed_data)
                                   THEN ProbeOutcomes ELSE {"none"}) :
                   /\ http' = [http EXCEPT !.hero = hero, !.thumbnail = thumbnail]
                   /\ IF thumbnail = "raise"
                      THEN /\ row' = row2
                           /\ at' = "except"
                      ELSE /\ row' = IF thumbnail = "200"
                                     THEN Put(row2, "IMAGE", ThumbnailUrl(detailed_data))
                                     ELSE row2
                           /\ at' = AfterImage
    /\ UNCHANGED <<inputs, spreadsheet, response_text, equipment_data, sink, driver, ip, aborted, fields, data, pilates_data, pilates_lookup,
                   i, rows, detailed_data>>

\* "Track muscles" of process_exercises_data: the detail document's primaryMuscles
detail_primary ==
    /\ Current = "process_exercises_data"
    /\ at = "primary"
    /\ LET a == Annotate(detailed_data, "primaryMuscles", row)
       IN /\ row' = a.row
          /\ all_muscles' = all_muscles \cup a.seen
          /\ at' = IF a.raised THEN "except" ELSE "secondary"
    /\ UNCHANGED <<inputs, spreadsheet, response_text, equipment_data, sink, driver, ip, aborted, translations, df_exercises, df_yoga, df_pilates,
                   df_mobility, all_equipment, data, pilates_data, pilates_lookup, i,
                   rows, detailed_data, http>>

\* the detail document's secondaryMuscles
detail_secondary ==
    /\ Current = "process_exercises_data"
    /\ at = "secondary"
    /\ LET a == Annotate(detailed_data, "secondaryMuscles", row)
       IN /\ row' = a.row
          /\ all_muscles' = all_muscles \cup a.seen
          /\ at' = IF a.raised THEN "except" ELSE "append"
    /\ UNCHANGED <<inputs, spreadsheet, response_text, equipment_data, sink, driver, ip, aborted, translations, df_exercises, df_yoga, df_pilates,
                   df_mobility, all_equipment, data, pilates_data, pilates_lookup, i,
                   rows, detailed_data, http>>

\* except_fields when the found flag is left as the try block may have set it
except_fields_KeepsFound ==
    /\ InBuilder
    /\ at = "except"
    /\ row' = Put(Put(Put(Put(Put(row, "DETAILED_INFO", TRUE), "URL", ""),
                          "DIFFICULTY", ""), "DESCRIPTION", ""), "IMAGE", "")
    /\ at' = IF Current = "process_yoga_data" THEN "append" ELSE "cprimary"
    /\ UNCHANGED <<inputs, spreadsheet, response_text, equipment_data, sink, driver, ip, aborted, fields, data, pilates_data,
                   pilates_lookup, i, rows, detailed_data, http>>

\* "except Exception as e": the five fields of a row without detail
except_fields ==
    /\ InBuilder
    /\ at = "except"
    /\ row' = Put(Put(Put(Put(Put(row, "DETAILED_INFO", FALSE), "URL", ""),
                          "DIFFICULTY", ""), "DESCRIPTION", ""), "IMAGE", "")
    /\ at' = IF Current = "process_yoga_data" THEN "append" ELSE "cprimary"
    /\ UNCHANGED <<inputs, spreadsheet, response_text, equipment_data, sink, driver, ip, aborted, fields, data, pilates_data, pilates_lookup,
                   i, rows, detailed_data, http>>

\* the muscle step of a builder raises outside any try: the call is left
RaiseFromRow ==
    /\ Raise
    /\ UNCHANGED <<data, pilates_data, pilates_lookup, i, rows, detailed_data, http>>

\* catalog_primary with the universe replaced by the muscles of this exercise
catalog_primary_Resets ==
    /\ Current \in Builders \ {"process_yoga_data"}
    /\ at = "cprimary"
    /\ LET a == Annotate(data[i].data, "primaryMuscles", row)
       IN /\ row' = a.row
          /\ all_muscles' = a.seen
          /\ IF a.raised
             THEN RaiseFromRow
             ELSE /\ at' = "csecondary"
                  /\ UNCHANGED <<inputs, spreadsheet, response_text, equipment_data, sink, driver, ip, aborted, data, pilates_data, pilates_lookup,
                                 i, rows, detailed_data, http>>
    /\ UNCHANGED <<translations, df_exercises, df_yoga, df_pilates, df_mobility,
                   all_equipment>>

\* primaryMuscles of the catalog entry: inside the except branch of
\* process_exercises_data, after the try statement of the Pilates and Mobility builders
catalog_primary ==
    /\ Current \in Builders \ {"process_yoga_data"}
    /\ at = "cprimary"
    /\ LET a == Annotate(data[i].data, "primaryMuscles", row)
       IN /\ row' = a.row
          /\ all_muscles' = all_muscles \cup a.seen
          /\ IF a.raised
             THEN RaiseFromRow
             ELSE /\ at' = "csecondary"
                  /\ UNCHANGED <<inputs, spreadsheet, response_text, equipment_data, sink, driver, ip, aborted, data, pilates_data, pilates_lookup,
                                 i, rows, detailed_data, http>>
    /\ UNCHANGED <<translations, df_exercises, df_yoga, df_pilates, df_mobility,
                   all_equipment>>

\* secondaryMuscles of the catalog entry
catalog_secondary ==
    /\ Current \in Builders \ {"process_yoga_data"}
    /\ at = "csecondary"
    /\ LET a == Annotate(data[i].data, "secondaryMuscles", row)
       IN /\ row' = a.row
          /\ all_muscles' = all_muscles \cup a.seen
          /\ IF a.raised
             THEN RaiseFromRow
             ELSE /\ at' = "append"
                  /\ UNCHANGED <<inputs, spreadsheet, response_text, equipment_data, sink, driver, ip, aborted, data, pilates_data, pilates_lookup,
                                 i, rows, detailed_data, http>>
    /\ UNCHANGED <<translations, df_exercises, df_yoga, df_pilates, df_mobility,
                   all_equipment>>

\* process_yoga_data: the lookup in the Pilates data, and its primaryMuscles
pilates_primary ==
    /\ Current = "process_yoga_data"
    /\ at = "lookup"
    /\ LET pilates_key == JoinKey(row.CATEGORY_GARMIN, row.NAME_GARMIN)
       IN IF pilates_key \in DOMAIN pilates_lookup
          THEN LET a == Annotate(pilates_lookup[pilates_key], "primaryMuscles", row)
               IN /\ row' = a.row
                  /\ all_muscles' = all_muscles \cup a.seen
                  /\ IF a.raised
                     THEN RaiseFromRow
                     ELSE /\ at' = "lsecondary"
                          /\ UNCHANGED <<inputs, spreadsheet, response_text, equipment_data, sink, driver, ip, aborted, data, pilates_data,
                                         pilates_lookup, i, rows, detailed_data, http>>
          ELSE \* "No corresponding exercise found in Pilates data"
               /\ RaiseFromRow
               /\ UNCHANGED <<row, all_muscles>>
    /\ UNCHANGED <<translations, df_exercises, df_yoga, df_pilates, df_mobility,
                   all_equipment>>

\* process_yoga_data: secondaryMuscles of the Pilates entry
pilates_secondary ==
    /\ Current = "process_yoga_data"
    /\ at = "lsecondary"
    /\ LET pilates_exercise ==
               pilates_lookup[JoinKey(row.CATEGORY_GARMIN, row.NAME_GARMIN)]
           a == Annotate(pilates_exercise, "secondaryMuscles", row)
       IN /\ row' = a.row
          /\ all_muscles' = all_muscles \cup a.seen
          /\ IF a.raised
             THEN RaiseFromRow
             ELSE /\ at' = "detail"
                  /\ UNCHANGED <<inputs, spreadsheet, response_text, equipment_data, sink, driver, ip, aborted, data, pilates_data, pilates_lookup,
                                 i, rows, detailed_data, http>>
    /\ UNCHANGED <<translations, df_exercises, df_yoga, df_pilates, df_mobility,
                   all_equipment>>

\* "rows.append(row)" and the next iteration
append_row ==
    /\ InBuilder
    /\ at = "append"
    /\ rows' = Append(rows, row)
    /\ i' = i + 1
    /\ at' = "loop"
    /\ UNCHANGED <<inputs, spreadsheet, response_text, equipment_data, sink, driver, ip, aborted, fields, data, pilates_data, pilates_lookup,
                   row, detailed_data, http>>

-----------------------------------------------------------------------------
(* The table of a builder *)

IsNone(df) == "isNone" \in DOMAIN df

\* pd.DataFrame(rows): the columns are the keys of all rows; a key a row lacks
\* is NaN in that row (kept as: the row has no value for the column)
DataFrame(rs) ==
    [columns |-> UNION {DOMAIN rs[k] : k \in DOMAIN rs}, rows |-> rs]

\* FillMuscles with the fillna(0) branch alone: no column is added
FillMuscles_NoNewColumn(df, muscles) ==
    LET cols == {MuscleCol(m) : m \in muscles} \cap df.columns
    IN [columns |-> df.columns,
        rows |-> [k \in DOMAIN df.rows |->
                    [c \in DOMAIN df.rows[k] \cup cols |->
                        IF c \in DOMAIN df.rows[k] THEN df.rows[k][c] ELSE 0]]]

\* "Fill missing muscle values with 0": a new column of 0, or fillna(0)
FillMuscles(df, muscles) ==
    LET cols == {MuscleCol(m) : m \in muscles}
    IN [columns |-> df.columns \cup cols,
        rows |-> [k \in DOMAIN df.rows |->
                    [c \in DOMAIN df.rows[k] \cup cols |->
                        IF c \in DOMAIN df.rows[k] THEN df.rows[k][c] ELSE 0]]]

\* finalize when every builder gives its table the equipment columns too
finalize_WithEquipmentColumns ==
    /\ InBuilder
    /\ at = "loop"
    /\ i > Len(data)
    /\ LET df == [columns |-> FillMuscles(DataFrame(rows), all_muscles).columns
                                \cup {"EQUIPMENT_" \o e : e \in all_equipment},
                  rows |-> [k \in DOMAIN rows |->
                              [c \in {"EQUIPMENT_" \o e : e \in all_equipment} |-> 0]
                              @@ FillMuscles(DataFrame(rows), all_muscles).rows[k]]]
       IN /\ df_exercises' = IF Current = "process_exercises_data" THEN df ELSE df_exercises
          /\ df_pilates' = IF Current = "process_pilates_data" THEN df ELSE df_pilates
          /\ df_yoga' = IF Current = "process_yoga_data" THEN df ELSE df_yoga
          /\ df_mobility' = IF Current = "process_mobility_data" THEN df ELSE df_mobility
    /\ IF Current = "process_exercises_data"
       THEN /\ at' = "equipment"
            /\ UNCHANGED <<inputs, spreadsheet, response_text, equipment_data, sink, driver, ip, aborted>>
       ELSE Return
    /\ UNCHANGED <<translations, all_muscles, all_equipment, locals>>

\* the end of a builder: the DataFrame, the fill, the assignment to the field
finalize ==
    /\ InBuilder
    /\ at = "loop"
    /\ i > Len(data)
    /\ LET df == FillMuscles(DataFrame(rows), all_muscles)
       IN /\ df_exercises' = IF Current = "process_exercises_data" THEN df ELSE df_exercises
          /\ df_pilates' = IF Current = "process_pilates_data" THEN df ELSE df_pilates
          /\ df_yoga' = IF Current = "process_yoga_data" THEN df ELSE df_yoga
          /\ df_mobility' = IF Current = "process_mobility_data" THEN df ELSE df_mobility
    /\ IF Current = "process_exercises_data"
       THEN /\ at' = "equipment"
            /\ UNCHANGED <<inputs, spreadsheet, response_text, equipment_data, sink, driver, ip, aborted>>
       ELSE Return
    /\ UNCHANGED <<translations, all_muscles, all_equipment, locals>>

-----------------------------------------------------------------------------
(* process_equipment_data *)

\* the equipment document: category blocks, each with its exercises
\* (the second one gives the key CARDIO_JUMPING_JACK twice and no key of SIT)
EquipmentDocs ==
    { <<>>,
      << [exerciseCategoryKey |-> "CARDIO",
          exercisesInCategory |->
              << [exerciseKey |-> "JUMPING_JACK", equipmentKeys |-> <<"BENCH">>],
                 [exerciseKey |-> "ROPE"] >>],
         [exerciseCategoryKey |-> "CARDIO_JUMPING",
          exercisesInCategory |->
              << [exerciseKey |-> "JACK", equipmentKeys |-> <<"MAT", "BALL">>] >>] >> }

\* exercise.get('equipmentKeys', [])
EquipmentKeys(exercise) ==
    IF "equipmentKeys" \in DOMAIN exercise THEN exercise.equipmentKeys ELSE <<>>

\* the inner loop: the universe and the mapping over one category block
RECURSIVE JoinExercises(_, _, _)
JoinExercises(acc, categoryKey, exercises) ==
    IF exercises = <<>> THEN acc
    ELSE JoinExercises(
             [all |-> acc.all \cup Range(EquipmentKeys(Head(exercises))),
              mapping |-> Put(acc.mapping,
                              JoinKey(categoryKey, Head(exercises).exerciseKey),
                              EquipmentKeys(Head(exercises)))],
             categoryKey, Tail(exercises))

\* the outer loop over the category blocks
RECURSIVE JoinEquipment(_, _)
JoinEquipment(acc, doc) ==
    IF doc = <<>> THEN acc
    ELSE JoinEquipment(JoinExercises(acc, Head(doc).exerciseCategoryKey,
                                     Head(doc).exercisesInCategory),
                       Tail(doc))

EmptyMapping == [k \in {} |-> <<>>]

\* WithEquipment without the "Fill equipment data" loop
WithEquipment_NotFilled(df, equipment, mapping) ==
    LET cols == {EquipmentCol(e) : e \in equipment}
    IN [columns |-> df.columns \cup cols,
        rows |-> [k \in DOMAIN df.rows |->
                    [c \in DOMAIN df.rows[k] \cup cols |->
                        IF c \in cols THEN 0 ELSE df.rows[k][c]]]]

\* "Add equipment columns" (all 0) and "Fill equipment data" (1 where mapped)
WithEquipment(df, equipment, mapping) ==
    LET cols == {EquipmentCol(e) : e \in equipment}
        mapped(r) == LET key == JoinKey(r.CATEGORY_GARMIN, r.NAME_GARMIN)
                     IN IF key \in DOMAIN mapping
                        THEN {EquipmentCol(e) : e \in Range(mapping[key])}
                        ELSE {}
    IN [columns |-> df.columns \cup cols,
        rows |-> [k \in DOMAIN df.rows |->
                    [c \in DOMAIN df.rows[k] \cup cols \cup mapped(df.rows[k]) |->
                        IF c \in mapped(df.rows[k]) THEN 1
                        ELSE IF c \in cols THEN 0
                        ELSE df.rows[k][c]]]]

process_equipment_data ==
    /\ Current = "process_exercises_data"
    /\ at = "equipment"
    /\ \/ \E doc \in EquipmentDocs :
            LET j == JoinEquipment([all |-> all_equipment, mapping |-> EmptyMapping],
                                   doc)
            IN /\ equipment_data' = doc
               /\ all_equipment' = j.all
               /\ df_exercises' = WithEquipment(df_exercises, j.all, j.mapping)
               /\ ip' = ip + 1
               /\ at' = "call"
               /\ UNCHANGED <<inputs, spreadsheet, response_text, sink, driver, aborted>>
       \/ \* fetch_json raises
          /\ Raise
          /\ UNCHANGED <<all_equipment, df_exercises>>
    /\ UNCHANGED <<translations, df_yoga, df_pilates, df_mobility, all_muscles, locals>>

-----------------------------------------------------------------------------
(* update_sheet and export_to_google_sheets *)

\* the characters of the column names, in code point order
Alphabet == "0123456789ABCDEFGHIJKLMNOPQRSTUVWXYZ_abcdefghijklmnopqrstuvwxyz"

CharRank(c) == CHOOSE k \in 1..Len(Alphabet) : SubSeq(Alphabet, k, k) = c

\* a < b on str
RECURSIVE StrLess(_, _)
StrLess(a, b) ==
    IF b = "" THEN FALSE
    ELSE IF a = "" THEN TRUE
    ELSE IF SubSeq(a, 1, 1) = SubSeq(b, 1, 1)
         THEN StrLess(SubSeq(a, 2, Len(a)), SubSeq(b, 2, Len(b)))
         ELSE CharRank(SubSeq(a, 1, 1)) < CharRank(SubSeq(b, 1, 1))

RECURSIVE Insert(_, _)
Insert(x, sorted) ==
    IF sorted = <<>> THEN <<x>>
    ELSE IF StrLess(x, Head(sorted)) THEN <<x>> \o sorted
    ELSE <<Head(sorted)>> \o Insert(x, Tail(sorted))

\* Sorted when the list is taken as it comes
Sorted_AsGiven(list) == list

\* sorted(list) on a list of str
RECURSIVE Sorted(_)
Sorted(list) ==
    IF list = <<>> THEN <<>> ELSE Insert(Head(list), Sorted(Tail(list)))

Reverse(list) == [k \in 1..Len(list) |-> list[Len(list) + 1 - k]]

\* the members of a set as a list, in one fixed order
RECURSIVE ListOf(_)
ListOf(set) ==
    IF set = {} THEN <<>>
    ELSE LET x == CHOOSE y \in set : TRUE
         IN <<x>> \o ListOf(set \ {x})

\* the orders in which a dataframe may hold its columns
ColumnOrders(columns) == {ListOf(columns), Reverse(ListOf(columns))}

name_columns == <<"Name", "CATEGORY_GARMIN", "NAME_GARMIN">>
detail_columns == <<"DETAILED_INFO", "IMAGE", "URL", "DIFFICULTY", "DESCRIPTION">>

\* "Organize columns in the correct order", on dataframe.columns as a list
OrderedColumns(sheet_name, dataframe_columns) ==
    LET present(c) == c \in Range(dataframe_columns)
        muscle(c) == StartsWith(c, "MUSCLE_")
        equipment(c) == StartsWith(c, "EQUIPMENT_")
    IN SelectSeq(name_columns, present)
       \o SelectSeq(detail_columns, present)
       \o Sorted(SelectSeq(dataframe_columns, muscle))
       \o (IF sheet_name = "Exercises"
           THEN Sorted(SelectSeq(dataframe_columns, equipment))
           ELSE <<>>)

\* the two header cells of a column
Header1(col) ==
    IF col \in Range(name_columns) THEN "NAME"
    ELSE IF col \in Range(detail_columns) THEN "DETAILED_INFO"
    ELSE IF StartsWith(col, "MUSCLE_") THEN "MUSCLE_GROUPS"
    ELSE IF StartsWith(col, "EQUIPMENT_") THEN "EQUIPMENT"
    ELSE ""

\* header2 of update_sheet with DETAILED_INFO under its own name
Header2_NoRename(col) ==
    IF col \in Range(name_columns) \cup Range(detail_columns) THEN col
    ELSE IF StartsWith(col, "MUSCLE_") THEN SubSeq(col, 8, Len(col))
    ELSE IF StartsWith(col, "EQUIPMENT_") THEN SubSeq(col, 11, Len(col))
    ELSE col

\* (the second header cell)
Header2(col) ==
    IF col \in Range(name_columns) THEN col
    ELSE IF col \in Range(detail_columns)
         THEN (IF col = "DETAILED_INFO" THEN "FOUND" ELSE col)
    ELSE IF StartsWith(col, "MUSCLE_") THEN SubSeq(col, 8, Len(col))
    ELSE IF StartsWith(col, "EQUIPMENT_") THEN SubSeq(col, 11, Len(col))
    ELSE col

\* the IMAGE formula written around every value, the empty one too
ImageFormula_Always(image) == "=IMAGE(\"" \o image \o "\", 1)"

\* "Convert image URLs to IMAGE() formulas"
ImageFormula(image) ==
    IF image /= "" /\ StartsWith(image, "http")
    THEN "=IMAGE(\"" \o image \o "\", 1)"
    ELSE image

\* a cell that holds no value
NaN == [nan |-> TRUE]

\* df_ordered.values.tolist(), after the IMAGE conversion
Values(dataframe, columns) ==
    [k \in DOMAIN dataframe.rows |->
        [c \in DOMAIN columns |->
            IF columns[c] \notin DOMAIN dataframe.rows[k] THEN NaN
            ELSE IF columns[c] = "IMAGE" THEN ImageFormula(dataframe.rows[k][columns[c]])
            ELSE dataframe.rows[k][columns[c]]]]

\* the sheets export_to_google_sheets updates, in its order, each with its table
SheetNames == <<"Exercises", "Yoga", "Pilates", "Mobility">>

TableOf(sheet_name) ==
    CASE sheet_name = "Exercises" -> df_exercises
      [] sheet_name = "Yoga" -> df_yoga
      [] sheet_name = "Pilates" -> df_pilates
      [] sheet_name = "Mobility" -> df_mobility

\* "dataframe is None or dataframe.empty"
IsEmpty(dataframe) ==
    IsNone(dataframe) \/ dataframe.rows = <<>> \/ dataframe.columns = {}

\* where export_to_google_sheets goes on after the sheet at position k
AfterSheet(k) == IF k < Len(SheetNames) THEN SheetNames[k + 1] ELSE "format"

\* the locals of the builders that have returned are gone
NoLocals ==
    /\ data' = <<>>
    /\ pilates_data' = <<>>
    /\ pilates_lookup' = EmptyDict
    /\ i' = 1
    /\ rows' = <<>>
    /\ row' = NoRow
    /\ detailed_data' = NoDoc
    /\ http' = NoHttp
    /\ equipment_data' = <<>>

\* the title of the sheet that keeps the spreadsheet non-empty during the cleaning
TempSheet == "TempSheet"

\* "sheet_titles" of clean_spreadsheet, the sheets of a created spreadsheet
sheet_titles == <<"Exercises", "Yoga", "Pilates", "Mobility">>

AddSheet(title) == [addSheet |-> title]
DeleteSheet(sheetId) == [deleteSheet |-> sheetId]
IsAdd(request) == "addSheet" \in DOMAIN request

\* the id the service gives a sheet added without one
NewId(sheets) ==
    IF sheets = <<>> THEN 1
    ELSE 1 + CHOOSE m \in {sheets[k].sheetId : k \in DOMAIN sheets} :
                 \A k \in DOMAIN sheets : sheets[k].sheetId <= m

\* the service accepts a request: a title is used once, a deleted sheet exists and
\* is not the last one
Valid(request, sheets) ==
    IF IsAdd(request)
    THEN \A k \in DOMAIN sheets : sheets[k].title /= request.addSheet
    ELSE /\ \E k \in DOMAIN sheets : sheets[k].sheetId = request.deleteSheet
         /\ Len(sheets) > 1

\* the sheets after an accepted request
ApplyRequest(request, sheets) ==
    IF IsAdd(request)
    THEN Append(sheets, [sheetId |-> NewId(sheets), title |-> request.addSheet])
    ELSE LET Stays(sheet) == sheet.sheetId /= request.deleteSheet
         IN SelectSeq(sheets, Stays)

\* spreadsheets().batchUpdate(...).execute(): the requests in order, all or nothing
RECURSIVE batchUpdate(_, _)
batchUpdate(requests, sheets) ==
    IF requests = <<>> THEN [ok |-> TRUE, sheets |-> sheets]
    ELSE IF ~Valid(Head(requests), sheets) THEN [ok |-> FALSE, sheets |-> sheets]
    ELSE LET rest == batchUpdate(Tail(requests), ApplyRequest(Head(requests), sheets))
         IN IF rest.ok THEN rest ELSE [ok |-> FALSE, sheets |-> sheets]

\* the first batch with every old sheet deleted before TempSheet is added
FirstBatch_DeletesFirst(sheets) ==
    [k \in DOMAIN sheets |-> DeleteSheet(sheets[k].sheetId)]
        \o << AddSheet(TempSheet) >>
        \o [k \in DOMAIN sheet_titles |-> AddSheet(sheet_titles[k])]

\* "requests" of clean_spreadsheet: TempSheet, the old sheets deleted, the new sheets
FirstBatch(sheets) ==
    << AddSheet(TempSheet) >>
        \o [k \in DOMAIN sheets |-> DeleteSheet(sheets[k].sheetId)]
        \o [k \in DOMAIN sheet_titles |-> AddSheet(sheet_titles[k])]

\* the second batch: the first sheet titled TempSheet deleted, when there is one
SecondBatch(sheets) ==
    LET IsTemp(sheet) == sheet.title = TempSheet
        found == SelectSeq(sheets, IsTemp)
    IN IF found = <<>> THEN <<>> ELSE << DeleteSheet(found[1].sheetId) >>

\* spreadsheets().create(body=spreadsheet): the four sheets of a new spreadsheet
Created == batchUpdate([k \in DOMAIN sheet_titles |-> AddSheet(sheet_titles[k])], <<>>).sheets

Sheet(sheetId, title) == [sheetId |-> sheetId, title |-> title]

\* what get_spreadsheet_id may find: the spreadsheet left by an earlier run, one new
\* from the browser, one left by an interrupted cleaning, one edited by hand, or
\* none; the builders' own specifications are explored on a second run
Spreadsheets ==
    IF Rich \/ Long THEN { [sheets |-> Created] }
    ELSE { None,
           [sheets |-> Created],
           [sheets |-> << Sheet(4, "Sheet1") >>],
           [sheets |-> << Sheet(1, "Exercises"), Sheet(4, TempSheet) >>],
           [sheets |-> << Sheet(4, "Notes"), Sheet(2, "Mobility"), Sheet(3, "Yoga") >>] }

\* export_to_google_sheets up to the first update_sheet: the credentials, the
\* services, the spreadsheet found, or created with its four sheets
export_to_google_sheets ==
    /\ Current = "export_to_google_sheets"
    /\ at = "call"
    /\ \/ \E found \in Spreadsheets :
             IF ~IsNone(found)
             THEN /\ spreadsheet' = found
                  /\ at' = "clean"
                  /\ UNCHANGED <<inputs, response_text, sink, driver, ip, aborted>>
             ELSE \* no spreadsheet: one is created, shared, and its id saved
                  /\ spreadsheet' = [sheets |-> Created]
                  /\ \/ /\ at' = SheetNames[1]
                        /\ UNCHANGED <<inputs, response_text, sink, driver, ip, aborted>>
                     \/ \* permissions().create or the file write raises
                        /\ aborted' = TRUE
                        /\ at' = "call"
                        /\ UNCHANGED <<inputs, response_text, sink, driver, ip>>
       \/ \* the credentials file or a service call raises
          /\ aborted' = TRUE
          /\ at' = "call"
          /\ UNCHANGED <<inputs, spreadsheet, response_text, sink, driver, ip>>
    /\ NoLocals
    /\ UNCHANGED fields

\* clean_spreadsheet(sheets_service, spreadsheet_id)
clean_spreadsheet ==
    /\ Current = "export_to_google_sheets"
    /\ at = "clean"
    /\ \E first \in {batchUpdate(FirstBatch(spreadsheet.sheets), spreadsheet.sheets)} :
         \/ \* spreadsheets().get raises, or the first batch is refused or raises
            /\ Raise
         \/ /\ first.ok
            /\ \E second \in {batchUpdate(SecondBatch(first.sheets), first.sheets)} :
                 \/ \* the second get raises, or the second batch is refused or raises
                    /\ spreadsheet' = [sheets |-> first.sheets]
                    /\ aborted' = TRUE
                    /\ at' = "call"
                    /\ UNCHANGED <<inputs, response_text, equipment_data, sink, driver, ip>>
                 \/ /\ second.ok
                    /\ spreadsheet' = [sheets |-> second.sheets]
                    /\ at' = SheetNames[1]
                    /\ UNCHANGED <<inputs, response_text, equipment_data, sink, driver, ip,
                                   aborted>>
    /\ UNCHANGED <<fields, locals>>

\* update_sheet(sheets_service, spreadsheet_id, sheet_name, dataframe)
update_sheet ==
    /\ Current = "export_to_google_sheets"
    /\ \E k \in DOMAIN SheetNames :
         /\ at = SheetNames[k]
         /\ LET sheet_name == SheetNames[k]
                dataframe == TableOf(sheet_name)
            IN IF IsEmpty(dataframe)
               THEN \* "No data for sheet"
                    /\ at' = AfterSheet(k)
                    /\ UNCHANGED <<inputs, spreadsheet, response_text, equipment_data, sink, driver, ip, aborted>>
               ELSE \/ \E order \in ColumnOrders(dataframe.columns) :
                         \E columns \in {OrderedColumns(sheet_name, order)} :
                            /\ sink' = Append(sink,
                                   [sheet_name |-> sheet_name,
                                    columns |-> columns,
                                    header1 |-> [c \in DOMAIN columns |-> Header1(columns[c])],
                                    header2 |-> [c \in DOMAIN columns |-> Header2(columns[c])],
                                    values |-> Values(dataframe, columns)])
                            /\ at' = AfterSheet(k)
                            /\ UNCHANGED <<inputs, spreadsheet, response_text, equipment_data, driver, ip, aborted>>
                    \/ \* values().clear or values().update raises
                       Raise
    /\ UNCHANGED <<fields, locals>>

\* the formatting requests that close export_to_google_sheets, and its return
format_sheets ==
    /\ Current = "export_to_google_sheets"
    /\ at = "format"
    /\ \/ Return
       \/ \* spreadsheets().get or batchUpdate raises
          Raise
    /\ UNCHANGED <<fields, locals>>

-----------------------------------------------------------------------------

Next ==
    \/ fetch_translations
    \/ fetch_catalog
    \/ yoga_fetch_catalogs
    \/ begin_row
    \/ fetch_detail
    \/ probe_image
    \/ detail_primary
    \/ detail_secondary
    \/ except_fields
    \/ catalog_primary
    \/ catalog_secondary
    \/ pilates_primary
    \/ pilates_secondary
    \/ append_row
    \/ finalize
    \/ process_equipment_data
    \/ export_to_google_sheets
    \/ clean_spreadsheet
    \/ update_sheet
    \/ format_sheets

\* run() on a fresh collector
Init == inputs = "run" /\ driver = RunCalls /\ InitFields

Spec == Init /\ [][Next]_vars

\* one builder on a fresh collector, on the larger inputs
InitBuilders == inputs = "rich" /\ driver \in BuilderCalls /\ InitFields

SpecBuilders == InitBuilders /\ [][Next]_vars

\* one builder on a fresh collector, on catalogs longer than the row limit
InitLong == inputs = "long" /\ driver \in BuilderCalls /\ InitFields

SpecLong == InitLong /\ [][Next]_vars
-----------------------------------------------------------------------------
(* What the claims speak of *)

\* the tables that have been assigned
Tables == {df \in {df_exercises, df_pilates, df_yoga, df_mobility} : ~IsNone(df)}

\* run() has returned normally
RunComplete == inputs = "run" /\ ~aborted /\ ip > Len(driver)

\* every row of df has a MUSCLE_ column with a score for every muscle of the set
Filled(df, muscles) ==
    \A k \in DOMAIN df.rows : \A m \in muscles :
        /\ MuscleCol(m) \in DOMAIN df.rows[k]
        /\ df.rows[k][MuscleCol(m)] \in {0, 1, 2}

\* the muscles a row scores, with their scores
ScoreOf(r) ==
    [m \in {x \in Muscles : MuscleCol(x) \in DOMAIN r} |-> r[MuscleCol(m)]]

\* the muscles a source lists as primary and as secondary
PrimaryOf(src) ==
    IF "primaryMuscles" \in DOMAIN src /\ IsIterable(src.primaryMuscles)
    THEN Range(src.primaryMuscles.list) ELSE {}

SecondaryOf(src) ==
    IF "secondaryMuscles" \in DOMAIN src /\ IsIterable(src.secondaryMuscles)
    THEN Range(src.secondaryMuscles.list) ELSE {}

\* primary = 1, secondary = 2, primary wins
Scores(primary, secondary) ==
    [m \in primary \cup secondary |-> IF m \in primary THEN 1 ELSE 2]

\* row r has value v in column c
Has(r, c, v) == c \in DOMAIN r /\ r[c] = v

\* a row is being built, between the head of the loop body and rows.append
Building == InBuilder /\ at \notin {"call", "loop", "equipment"}

-----------------------------------------------------------------------------
(* C1: after a complete run(), every row of each of the four tables has a    *)
(* MUSCLE_ column for every muscle of the final all_muscles, also for the    *)
(* muscles first met while a later category was built.                       *)
C1_EveryTableHasFinalUniverse ==
    RunComplete => \A df \in Tables : Filled(df, all_muscles)

(* C2: in the step that assigns a category table to its field, every row of  *)
(* that table has, for every muscle of all_muscles as it stands then, the    *)
(* column MUSCLE_m with a value in {0, 1, 2}.                                *)
C2_FilledWhenFinalized ==
    [][ /\ (IsNone(df_exercises) /\ ~IsNone(df_exercises'))
            => Filled(df_exercises', all_muscles')
        /\ (IsNone(df_pilates) /\ ~IsNone(df_pilates'))
            => Filled(df_pilates', all_muscles')
        /\ (IsNone(df_yoga) /\ ~IsNone(df_yoga'))
            => Filled(df_yoga', all_muscles')
        /\ (IsNone(df_mobility) /\ ~IsNone(df_mobility'))
            => Filled(df_mobility', all_muscles') ]_vars

\* the Pilates table has a row, and a column of zeros for a muscle that only
\* the Exercises table uses
C2_Witness ==
    /\ ~IsNone(df_exercises)
    /\ ~IsNone(df_pilates)
    /\ Len(df_pilates.rows) >= 1
    /\ \E m \in all_muscles :
          /\ \A k \in DOMAIN df_pilates.rows : Has(df_pilates.rows[k], MuscleCol(m), 0)
          /\ \E k \in DOMAIN df_exercises.rows : Has(df_exercises.rows[k], MuscleCol(m), 1)

(* C3: while a row is built, a muscle that has score 1 on it keeps score 1   *)
(* in every later step, the catalog fallback of the Exercises builder        *)
(* after a detail branch that failed part-way included; and a row that is    *)
(* appended scores 1 every muscle its source lists as primary and secondary. *)
C3_PrimaryIsSticky ==
    [][ /\ Building =>
              \A m \in Muscles :
                  Has(row, MuscleCol(m), 1) => Has(row', MuscleCol(m), 1)
        /\ (at = "append" /\ Current \in {"process_pilates_data", "process_mobility_data"})
              => \A m \in PrimaryOf(data[i].data) \cap SecondaryOf(data[i].data) :
                      Has(row, MuscleCol(m), 1)
        /\ (at = "append" /\ Current = "process_exercises_data"
                /\ Has(row, "DETAILED_INFO", TRUE))
              => \A m \in PrimaryOf(detailed_data) \cap SecondaryOf(detailed_data) :
                      Has(row, MuscleCol(m), 1) ]_vars

\* the Exercises builder is about to append a row whose detail branch failed
\* after it had scored ABS 1, and whose catalog entry lists ABS as secondary
C3_Witness ==
    /\ Current = "process_exercises_data"
    /\ at = "append"
    /\ http.detail = "ok"
    /\ Has(row, "DETAILED_INFO", FALSE)
    /\ "ABS" \in PrimaryOf(detailed_data)
    /\ "ABS" \in SecondaryOf(data[i].data) \ PrimaryOf(data[i].data)
    /\ Has(row, MuscleCol("ABS"), 1)

(* C4: every row has a Name: the translation of "{category}_{exerciseKey}"   *)
(* when the table has that key, and "{category} {exerciseKey}" when not;     *)
(* resolving the name never leaves the builder.                              *)
NameOf(r) ==
    LET key == r.CATEGORY_GARMIN \o "_" \o r.NAME_GARMIN
    IN IF key \in DOMAIN translations THEN translations[key]
       ELSE r.CATEGORY_GARMIN \o " " \o r.NAME_GARMIN

Named(r) == "Name" \in DOMAIN r /\ r.Name = NameOf(r)

C4_EveryRowNamed ==
    /\ Building => Named(row)
    /\ InBuilder => \A k \in DOMAIN rows : Named(rows[k])
    /\ \A df \in Tables : \A k \in DOMAIN df.rows : Named(df.rows[k])

\* a table with a translated row and a row under its fallback name
C4_Witness ==
    \E df \in Tables : \E j, k \in DOMAIN df.rows :
        /\ df.rows[j].Name = "Sit-Up=Twist"
        /\ df.rows[j].NAME_GARMIN = "TWIST"
        /\ df.rows[k].Name = "CARDIO JUMPING_JACK"

\* the entry of the catalog whose row is being built, and the Pilates entries
\* of the same category and exerciseKey as a row
exercise_data == data[i].data

SameIdentity(r) ==
    {k \in DOMAIN pilates_data :
        /\ pilates_data[k].category = r.CATEGORY_GARMIN
        /\ pilates_data[k].name = r.NAME_GARMIN}

ScoresOfSource(src) == Scores(PrimaryOf(src), SecondaryOf(src))

(* C5: a Yoga row scores its muscles as the Pilates entry of the same         *)
(* category and exerciseKey lists them, whatever the Yoga detail fetch did    *)
(* and whatever the Yoga entry and the detail document list.                  *)
C5_YogaScoresFromPilatesEntry ==
    (Current = "process_yoga_data" /\ at = "append")
        => \E k \in SameIdentity(row) : ScoreOf(row) = ScoresOfSource(pilates_data[k].data)

(* C6: when some entry of the Yoga catalog, at any position, has no Pilates   *)
(* entry of the same category and exerciseKey, process_yoga_data raises and   *)
(* assigns no Yoga table.                                                     *)
C6_MissingPilatesEntryFails ==
    (driver[2] = "process_yoga_data" /\ ~IsNone(df_yoga))
        => \A k \in DOMAIN data :
              \E j \in DOMAIN pilates_data :
                  /\ pilates_data[j].category = data[k].category
                  /\ pilates_data[j].name = data[k].name

\* the detail fetch succeeded and the document carries a muscle list
DetailHasMuscles ==
    /\ http.detail = "ok"
    /\ \/ "primaryMuscles" \in DOMAIN detailed_data
       \/ "secondaryMuscles" \in DOMAIN detailed_data

NotYoga == Current \in Builders \ {"process_yoga_data"}

ScoredBeforeRaise ==
    IF http.detail = "ok" /\ http.hero /= "raise" /\ http.thumbnail /= "raise"
    THEN PrimaryOf(detailed_data) ELSE {}

C8_OneSourcePerRow ==
    (NotYoga /\ at = "append")
        => \/ ScoreOf(row) = ScoresOfSource(detailed_data)
           \/ ScoreOf(row) = ScoresOfSource(exercise_data)

\* the detail fetch of the row being built failed
DetailFailed ==
    /\ InBuilder
    /\ http.detail = "error"
    /\ at \in {"except", "cprimary", "csecondary", "append"}

(* C9: when the detail fetch fails the builder does not raise; the row has    *)
(* DETAILED_INFO False and URL, DIFFICULTY, DESCRIPTION, IMAGE empty, in the  *)
(* Exercises builder it scores the catalog entry's lists, and it is appended  *)
(* and the loop goes on to the next exercise.                                 *)
C9_DetailFailureDegrades ==
    [][ DetailFailed =>
          /\ ~aborted'
          /\ at /= "except" =>
                /\ Has(row, "DETAILED_INFO", FALSE)
                /\ Has(row, "URL", "")
                /\ Has(row, "DIFFICULTY", "")
                /\ Has(row, "DESCRIPTION", "")
                /\ Has(row, "IMAGE", "")
          /\ at = "append" =>
                /\ Current = "process_exercises_data"
                      => ScoreOf(row) = ScoresOfSource(exercise_data)
                /\ rows' = Append(rows, row)
                /\ i' = i + 1
                /\ at' = "loop" ]_vars

\* the Exercises builder went on after a row without detail and is about to
\* append CARDIO JUMPING_JACK, detail fetch failed, CORE scored 1 by the catalog
C9_Witness ==
    /\ Current = "process_exercises_data"
    /\ at = "append"
    /\ http.detail = "error"
    /\ Len(rows) = 1
    /\ Has(rows[1], "DETAILED_INFO", FALSE)
    /\ Has(row, "Name", "CARDIO JUMPING_JACK")
    /\ Has(row, "DETAILED_INFO", FALSE)
    /\ exercise_data = [primaryMuscles |-> JList(<<"CORE">>)]
    /\ Has(row, MuscleCol("CORE"), 1)

\* an image probe of the row being built answered no 200, or raised
ProbeFailed ==
    \/ http.hero \in {"404", "raise"}
    \/ http.thumbnail \in {"404", "raise"}

(* C10: when the detail fetch succeeded and an image probe fails, by status   *)
(* or by raising, the row keeps DETAILED_INFO True and the URL, DIFFICULTY    *)
(* and DESCRIPTION of the detail document.                                    *)
C10_ProbeFailureKeepsDetail ==
    (InBuilder /\ at = "append" /\ http.detail = "ok" /\ ProbeFailed)
        => /\ Has(row, "DETAILED_INFO", TRUE)
           /\ Has(row, "URL", PageUrl(row.CATEGORY_GARMIN, row.NAME_GARMIN))
           /\ Has(row, "DIFFICULTY", Get(detailed_data, "difficulty"))
           /\ Has(row, "DESCRIPTION", Get(detailed_data, "description"))

\* the image the probes of the row being built resolve to: the hero image when
\* present and answered 200, else the first thumbnail when present and answered
\* 200, else none
ResolvedImage ==
    IF HasHero(detailed_data) /\ http.hero = "200" THEN HeroUrl(detailed_data)
    ELSE IF HasThumbnail(detailed_data) /\ http.thumbnail = "200"
         THEN ThumbnailUrl(detailed_data)
    ELSE ""

(* C11: on a successful detail fetch the IMAGE of the row is the hero image   *)
(* URL when heroImage is present and its probe answers 200, else the first    *)
(* video's thumbnail URL when present and its probe answers 200, else empty.  *)
C11_ImagePrecedence ==
    (InBuilder /\ at = "append" /\ http.detail = "ok")
        => Has(row, "IMAGE", ResolvedImage)

\* the positions (block, exercise) of the equipment document that give a key
EntriesOf(doc, key) ==
    UNION { { <<b, e>> : e \in {x \in DOMAIN doc[b].exercisesInCategory :
                                  JoinKey(doc[b].exerciseCategoryKey,
                                          doc[b].exercisesInCategory[x].exerciseKey) = key} } :
            b \in DOMAIN doc }

\* the equipmentKeys the document maps to a key: none without an entry, and those
\* of the last entry when the document gives the key more than once
MappedTo(doc, key) ==
    LET hits == EntriesOf(doc, key)
        later(p, q) == p[1] > q[1] \/ (p[1] = q[1] /\ p[2] > q[2])
    IN IF hits = {} THEN {}
       ELSE LET last == CHOOSE p \in hits : \A q \in hits \ {p} : later(p, q)
            IN Range(EquipmentKeys(doc[last[1]].exercisesInCategory[last[2]]))

EquipmentColumnsOf(r) == {c \in DOMAIN r : StartsWith(c, "EQUIPMENT_")}

(* C12: when process_equipment_data returns, every row of the Exercises table *)
(* has exactly one EQUIPMENT_e column for every e of all_equipment, 1 when e  *)
(* is among the equipmentKeys the equipment document maps to the row's        *)
(* "{category}_{exerciseKey}" and 0 otherwise, also for a row without entry.  *)
C12_EquipmentColumns ==
    [][ (Current = "process_exercises_data" /\ at = "equipment" /\ ~aborted')
          => \A k \in DOMAIN df_exercises'.rows :
                LET r == df_exercises'.rows[k]
                    used == MappedTo(equipment_data',
                                     JoinKey(r.CATEGORY_GARMIN, r.NAME_GARMIN))
                IN /\ EquipmentColumnsOf(r) = {EquipmentCol(e) : e \in all_equipment'}
                   /\ \A e \in all_equipment' :
                         r[EquipmentCol(e)] = IF e \in used THEN 1 ELSE 0 ]_vars

\* the Exercises table holds CARDIO/JUMPING_JACK with MAT and without BENCH, and
\* a row the equipment document has no entry for, with every equipment at 0
C12_Witness ==
    /\ ~IsNone(df_exercises)
    /\ all_equipment = {"BENCH", "MAT", "BALL"}
    /\ \E k \in DOMAIN df_exercises.rows :
          /\ Has(df_exercises.rows[k], "NAME_GARMIN", "JUMPING_JACK")
          /\ Has(df_exercises.rows[k], "EQUIPMENT_MAT", 1)
          /\ Has(df_exercises.rows[k], "EQUIPMENT_BENCH", 0)
    /\ \E k \in DOMAIN df_exercises.rows :
          /\ Has(df_exercises.rows[k], "NAME_GARMIN", "TWIST")
          /\ \A e \in all_equipment : Has(df_exercises.rows[k], EquipmentCol(e), 0)

\* a table without any EQUIPMENT_ column
NoEquipmentColumn(df) ==
    /\ \A c \in df.columns : ~StartsWith(c, "EQUIPMENT_")
    /\ \A k \in DOMAIN df.rows : EquipmentColumnsOf(df.rows[k]) = {}

(* C13: all_equipment changes only while the Exercises category is built; the *)
(* Yoga, Pilates and Mobility tables never hold an EQUIPMENT_ column, and     *)
(* building these three leaves all_equipment and the Exercises table as they  *)
(* were.                                                                      *)
C13_EquipmentOnlyForExercises ==
    [][ /\ Current /= "process_exercises_data" => all_equipment' = all_equipment
        /\ Current \in Builders \ {"process_exercises_data"}
              => df_exercises' = df_exercises
        /\ \A df \in {df_yoga', df_pilates', df_mobility'} :
              ~IsNone(df) => NoEquipmentColumn(df) ]_vars

\* the whole run is over, with equipment found for the Exercises table and a row
\* in each of the three other tables
C13_Witness ==
    /\ RunComplete
    /\ all_equipment /= {}
    /\ \E k \in DOMAIN df_exercises.rows : EquipmentColumnsOf(df_exercises.rows[k]) /= {}
    /\ df_pilates.rows /= <<>>
    /\ df_yoga.rows /= <<>>
    /\ df_mobility.rows /= <<>>

\* the rows of a table are the exercises of a catalog, one each, in its order
RowsFollow(df, catalog) ==
    /\ Len(df.rows) = Len(catalog)
    /\ \A k \in DOMAIN df.rows :
          k \in DOMAIN catalog
             => /\ df.rows[k].CATEGORY_GARMIN = catalog[k].category
                /\ df.rows[k].NAME_GARMIN = catalog[k].name

\* the loop of the running builder is over: its table is assigned next
LoopDone == InBuilder /\ at = "loop" /\ i > Len(data)

(* C14: the table a builder assigns holds one row for every exercise of its   *)
(* catalog, however many the catalog holds, in the catalog's iteration order. *)
C14_OneRowPerExercise ==
    [][ LoopDone =>
          RowsFollow(CASE Current = "process_exercises_data" -> df_exercises'
                       [] Current = "process_pilates_data" -> df_pilates'
                       [] Current = "process_yoga_data" -> df_yoga'
                       [] Current = "process_mobility_data" -> df_mobility',
                     data) ]_vars

\* the group of a column: identity, detail, muscle, equipment, or none of them
GroupOf(col) ==
    IF col \in {"Name", "CATEGORY_GARMIN", "NAME_GARMIN"} THEN 1
    ELSE IF col \in {"DETAILED_INFO", "IMAGE", "URL", "DIFFICULTY", "DESCRIPTION"} THEN 2
    ELSE IF StartsWith(col, "MUSCLE_") THEN 3
    ELSE IF StartsWith(col, "EQUIPMENT_") THEN 4
    ELSE 5

IndexIn(list, x) == CHOOSE k \in DOMAIN list : list[k] = x

\* column a comes before column b in the sequence the sink is to receive
ComesBefore(a, b) ==
    \/ GroupOf(a) < GroupOf(b)
    \/ /\ GroupOf(a) = GroupOf(b)
       /\ CASE GroupOf(a) = 1 ->
                 IndexIn(<<"Name", "CATEGORY_GARMIN", "NAME_GARMIN">>, a)
                     < IndexIn(<<"Name", "CATEGORY_GARMIN", "NAME_GARMIN">>, b)
            [] GroupOf(a) = 2 ->
                 IndexIn(<<"DETAILED_INFO", "IMAGE", "URL", "DIFFICULTY", "DESCRIPTION">>, a)
                     < IndexIn(<<"DETAILED_INFO", "IMAGE", "URL", "DIFFICULTY", "DESCRIPTION">>, b)
            [] OTHER -> StrLess(a, b)

\* (ComesBefore is a strict order: neighbours in sequence put the whole list in
\* sequence and leave no column twice)
\* list holds, once each and in sequence, the identity, detail and muscle columns
\* among columns, and for the sheet Exercises alone the equipment columns
WellOrdered(list, sheet_name, columns) ==
    /\ Range(list) = {c \in columns :
                        GroupOf(c) \in (IF sheet_name = "Exercises" THEN 1..4 ELSE 1..3)}
    /\ \A a \in 1..(Len(list) - 1) : ComesBefore(list[a], list[a + 1])

(* C15: the columns update_sheet hands to the sink are the identity columns   *)
(* Name, CATEGORY_GARMIN, NAME_GARMIN, then DETAILED_INFO, IMAGE, URL,        *)
(* DIFFICULTY, DESCRIPTION, then the MUSCLE_ columns in lexicographic order,  *)
(* then for the sheet Exercises alone the EQUIPMENT_ columns in lexicographic *)
(* order: no column twice, the same whatever the order of the table's         *)
(* columns, and no EQUIPMENT_ column for another sheet.  (update_sheet is     *)
(* taken on every order of ColumnOrders; the last conjunct hands the          *)
(* Exercises table over under the name of another sheet.)                     *)
C15_ColumnSequence ==
    [][ (at \in Range(SheetNames) /\ ~IsEmpty(TableOf(at)))
          => /\ Len(sink') > Len(sink)
                  => /\ Len(sink') = Len(sink) + 1
                     /\ sink'[Len(sink')].sheet_name = at
                     /\ WellOrdered(sink'[Len(sink')].columns, at, TableOf(at).columns)
             /\ at = "Exercises"
                  => \A order \in ColumnOrders(df_exercises.columns) :
                        WellOrdered(OrderedColumns("Yoga", order), "Yoga",
                                    df_exercises.columns) ]_vars

\* the sink has received the sheet Exercises with two muscle and three equipment
\* columns, and then the sheet Yoga
C15_Witness ==
    /\ Len(sink) >= 2
    /\ sink[1].sheet_name = "Exercises"
    /\ sink[1].columns = <<"Name", "CATEGORY_GARMIN", "NAME_GARMIN",
                           "DETAILED_INFO", "IMAGE", "URL", "DIFFICULTY", "DESCRIPTION",
                           "MUSCLE_ABS", "MUSCLE_CORE",
                           "EQUIPMENT_BALL", "EQUIPMENT_BENCH", "EQUIPMENT_MAT">>
    /\ sink[2].sheet_name = "Yoga"
    /\ Len(sink[2].columns) >= 9

\* the level 1 label of a column's group
LabelOf(col) ==
    CASE GroupOf(col) = 1 -> "NAME"
      [] GroupOf(col) = 2 -> "DETAILED_INFO"
      [] GroupOf(col) = 3 -> "MUSCLE_GROUPS"
      [] GroupOf(col) = 4 -> "EQUIPMENT"
      [] OTHER -> ""

\* name is col without the prefix of its group
Stripped(col, name) ==
    CASE GroupOf(col) = 3 -> "MUSCLE_" \o name = col
      [] GroupOf(col) = 4 -> "EQUIPMENT_" \o name = col
      [] OTHER -> name = col

\* both header rows of a sink call are as long as its column list, and level 1
\* carries the label of each column's group
HeadersMatch(call) ==
    /\ Len(call.header1) = Len(call.columns)
    /\ Len(call.header2) = Len(call.columns)
    /\ \A c \in DOMAIN call.columns : call.header1[c] = LabelOf(call.columns[c])

(* C16, as claimed: update_sheet emits two header rows as long as the column  *)
(* list: level 1 is NAME, DETAILED_INFO, MUSCLE_GROUPS or EQUIPMENT by the    *)
(* column's group, level 2 is the column name, without the MUSCLE_ or         *)
(* EQUIPMENT_ prefix for muscle and equipment columns.                        *)
C16_TwoLevelHeader ==
    \A k \in DOMAIN sink :
        /\ HeadersMatch(sink[k])
        /\ \A c \in DOMAIN sink[k].columns :
              Stripped(sink[k].columns[c], sink[k].header2[c])

(* C16, amended: as above, but level 2 of the column DETAILED_INFO is FOUND.  *)
C16_Amended ==
    \A k \in DOMAIN sink :
        /\ HeadersMatch(sink[k])
        /\ \A c \in DOMAIN sink[k].columns :
              IF sink[k].columns[c] = "DETAILED_INFO"
              THEN sink[k].header2[c] = "FOUND"
              ELSE Stripped(sink[k].columns[c], sink[k].header2[c])

\* the sink has received the sheet Exercises with an identity, a detail, a muscle
\* and an equipment column under their two headers
C16_Witness ==
    /\ sink /= <<>>
    /\ sink[1].sheet_name = "Exercises"
    /\ Len(sink[1].columns) = 13
    /\ sink[1].header1[1] = "NAME" /\ sink[1].header2[1] = "Name"
    /\ sink[1].header1[4] = "DETAILED_INFO" /\ sink[1].header2[4] = "FOUND"
    /\ sink[1].header1[9] = "MUSCLE_GROUPS" /\ sink[1].header2[9] = "ABS"
    /\ sink[1].header1[13] = "EQUIPMENT" /\ sink[1].header2[13] = "MAT"

\* the tables that are assigned while the named call of run() is running
AssignedDuring(call) ==
    CASE call = "fetch_translations" -> {}
      [] call = "process_exercises_data" -> {}
      [] call = "process_pilates_data" -> {"Exercises"}
      [] call = "process_yoga_data" -> {"Exercises", "Pilates"}
      [] call = "process_mobility_data" -> {"Exercises", "Pilates", "Yoga"}
      [] OTHER -> {"Exercises", "Pilates", "Yoga", "Mobility"}

\* the field a call of run() writes
Writes(call) ==
    CASE call = "process_exercises_data" -> "Exercises"
      [] call = "process_pilates_data" -> "Pilates"
      [] call = "process_yoga_data" -> "Yoga"
      [] call = "process_mobility_data" -> "Mobility"
      [] OTHER -> "none"

(* C17: in run() the translations are loaded first, then Exercises (with its  *)
(* equipment), Pilates, Yoga and Mobility are built in this order, then the   *)
(* export runs. While a call runs, the tables of the earlier builders are     *)
(* assigned and final (no step changes them any more), the tables of the      *)
(* later builders are not assigned, the translations change only in           *)
(* fetch_translations, the equipment universe only in the Exercises build,    *)
(* and the sink receives a table only in the export, with all four assigned.  *)
C17_RunOrder ==
    [][ /\ \A n \in Range(SheetNames) :
              /\ n \in AssignedDuring(Current) => /\ ~IsNone(TableOf(n))
                                                  /\ TableOf(n)' = TableOf(n)
              /\ (n \notin AssignedDuring(Current) /\ n /= Writes(Current))
                    => IsNone(TableOf(n)) /\ IsNone(TableOf(n)')
        /\ translations' /= translations => Current = "fetch_translations"
        /\ all_equipment' /= all_equipment => Current = "process_exercises_data"
        /\ sink' /= sink => Current = "export_to_google_sheets"
        /\ Current' \in {Current, "done"} \/ ip' = ip + 1 ]_vars

\* run() has gone through every call and the sink holds the four tables
C17_Witness ==
    /\ RunComplete
    /\ translations /= EmptyDict
    /\ Len(sink) = 4
    /\ \A n \in Range(SheetNames) : ~IsNone(TableOf(n))

(* C18: when the Yoga builder comes to the Pilates lookup of a Yoga entry and *)
(* the Pilates catalog has no entry of the same category and exerciseKey, the *)
(* run aborts at once: df_yoga stays unassigned, no row is added, nothing     *)
(* reaches the sink, and no step follows the abort (no Mobility build, no     *)
(* export).                                                                   *)
C18_MissingMatchAborts ==
    [][ /\ ~aborted
        /\ (Current = "process_yoga_data" /\ at = "lookup" /\ SameIdentity(row) = {})
              => /\ aborted'
                 /\ IsNone(df_yoga')
                 /\ IsNone(df_mobility')
                 /\ rows' = rows
                 /\ sink' = <<>> ]_vars

\* the running call is about to fetch a bulk document: the translations, the
\* catalog (or catalogs) of a builder, or the equipment document
FetchesPrerequisite ==
    \/ Current = "fetch_translations"
    \/ InBuilder /\ at \in {"call", "equipment"}

(* C19: a failed fetch of the translations, of a base catalog or of the       *)
(* equipment document is fatal: the error leaves the running call and run(),  *)
(* the table of the builder whose fetch failed stays unassigned (also the     *)
(* Exercises table when the equipment fetch fails), nothing has reached the   *)
(* sink, and no step follows (the export is never invoked).                   *)
C19_PrerequisiteFailureIsFatal ==
    [][ /\ ~aborted
        /\ (FetchesPrerequisite /\ aborted')
              => /\ sink' = <<>>
                 /\ \A n \in Range(SheetNames) :
                       (n \notin AssignedDuring(Current)) => IsNone(TableOf(n)') ]_vars

(* C20: every step of the run leaves all_muscles and all_equipment a superset *)
(* of what they were: no step removes a member or resets either set, also     *)
(* the step of a failed detail fetch and the step on which a builder aborts.  *)
C20_UniversesOnlyGrow ==
    [][ /\ all_muscles \subseteq all_muscles'
        /\ all_equipment \subseteq all_equipment' ]_vars

\* a later builder of run() has aborted on a row whose detail fetch failed, with
\* both universes holding what the earlier steps put in
C20_Witness ==
    /\ inputs = "run"
    /\ aborted
    /\ ip >= 3
    /\ http.detail = "error"
    /\ all_muscles = Muscles
    /\ all_equipment /= {}

\* the character of s at position k is c
CharIs(s, k, c) == SubSeq(s, k, k) = c

\* t is s without the blanks at its two ends
TrimOf(t, s) ==
    \E a \in 1..Len(s) + 1 :
        \E b \in a - 1..Len(s) :
            /\ t = SubSeq(s, a, b)
            /\ \A k \in 1..a - 1 : CharIs(s, k, " ")
            /\ \A k \in b + 1..Len(s) : CharIs(s, k, " ")
            /\ a <= b => ~CharIs(s, a, " ") /\ ~CharIs(s, b, " ")

HasEq(line) == \E e \in 1..Len(line) : CharIs(line, e, "=")

\* e is the position of the first "=" of line
FirstEq(line, e) ==
    /\ e \in 1..Len(line)
    /\ CharIs(line, e, "=")
    /\ \A k \in 1..e - 1 : ~CharIs(line, k, "=")

\* key is the trimmed text before the first "=" of line
IsKeyOf(line, key) ==
    \E e \in 1..Len(line) : FirstEq(line, e) /\ TrimOf(key, SubSeq(line, 1, e - 1))

\* value is the trimmed text after the first "=" of line
IsValueOf(line, value) ==
    \E e \in 1..Len(line) :
        FirstEq(line, e) /\ TrimOf(value, SubSeq(line, e + 1, Len(line)))

(* C21: the table fetch_translations builds from the lines of the text has    *)
(* one entry for every line with an "=", under the trimmed text before the    *)
(* first "=", and no other entry; the value of a key is the trimmed text      *)
(* after the first "=" of the last line with that key.                        *)
C21_TranslationTable ==
    [][ (Current = "fetch_translations" /\ ~aborted')
          => /\ \A n \in DOMAIN response_text' :
                   HasEq(response_text'[n])
                      => \E key \in DOMAIN translations' : IsKeyOf(response_text'[n], key)
             /\ \A key \in DOMAIN translations' :
                   \E n \in DOMAIN response_text' :
                       /\ IsKeyOf(response_text'[n], key)
                       /\ IsValueOf(response_text'[n], translations'[key])
                       /\ \A m \in n + 1..Len(response_text') :
                             ~IsKeyOf(response_text'[m], key) ]_vars

\* the table of a text with a comment, a key on two lines, blanks around key and
\* value, a second "=" in the value and a line without "="
C21_Witness ==
    /\ response_text = TranslationLines
    /\ DOMAIN translations = {"SIT_UP_TWIST"}
    /\ translations["SIT_UP_TWIST"] = "Sit-Up=Twist"

\* the number of sheets after the first k requests of a batch sent to a spreadsheet
\* of n sheets
RECURSIVE SheetsAfter(_, _, _)
SheetsAfter(requests, k, n) ==
    IF k = 0 THEN n
    ELSE SheetsAfter(requests, k - 1, n) + (IF IsAdd(requests[k]) THEN 1 ELSE -1)

TitlesOf(sheets) == {sheets[k].title : k \in DOMAIN sheets}
IdsOf(sheets) == {sheets[k].sheetId : k \in DOMAIN sheets}

\* the batches clean_spreadsheet sends keep a sheet after each of their requests,
\* add TempSheet ahead of every deletion and delete it with the new sheets there
KeepsASheet(old) ==
    LET requests == FirstBatch(old)
        first == batchUpdate(requests, old)
        last == SecondBatch(first.sheets)
    IN /\ \A k \in DOMAIN requests :
             /\ SheetsAfter(requests, k, Len(old)) >= 1
             /\ ~IsAdd(requests[k])
                   => \E j \in 1..k - 1 : requests[j] = AddSheet(TempSheet)
       /\ first.ok
             => \A k \in DOMAIN last :
                   /\ SheetsAfter(last, k, Len(first.sheets)) >= 1
                   /\ Range(sheet_titles) \subseteq TitlesOf(first.sheets)

(* C23: clean_spreadsheet on a spreadsheet with at least one sheet keeps at   *)
(* least one sheet after every request of its batches (TempSheet is added     *)
(* before any deletion and deleted only with the four new sheets there), and  *)
(* when it completes the spreadsheet holds exactly the four sheets Exercises, *)
(* Yoga, Pilates and Mobility, none of them a sheet it had before, and no     *)
(* TempSheet.                                                                 *)
C23_CleanSpreadsheet ==
    [][ (Current = "export_to_google_sheets" /\ at = "clean"
           /\ spreadsheet.sheets /= <<>>)
          => /\ KeepsASheet(spreadsheet.sheets)
             /\ Len(spreadsheet'.sheets) >= 1
             /\ ~aborted'
                   => /\ Len(spreadsheet'.sheets) = 4
                      /\ TitlesOf(spreadsheet'.sheets)
                            = {"Exercises", "Yoga", "Pilates", "Mobility"}
                      /\ IdsOf(spreadsheet'.sheets) \cap IdsOf(spreadsheet.sheets) = {} ]_vars

\* a spreadsheet that was found has been cleaned: the export is at its first
\* update_sheet with four new sheets
C23_Witness ==
    /\ Current = "export_to_google_sheets"
    /\ at = SheetNames[1]
    /\ TitlesOf(spreadsheet.sheets) = {"Exercises", "Yoga", "Pilates", "Mobility"}
    /\ IdsOf(spreadsheet.sheets) = 6..9

\* the renderable-image marker around a URL
Marker(url) == "=IMAGE(\"" \o url \o "\", 1)"

\* the cell of column col that update_sheet hands over for a table row r
HandedOver(cell, col, r) ==
    IF col \notin DOMAIN r THEN cell = NaN
    ELSE IF col /= "IMAGE" THEN cell = r[col]
    ELSE IF r.IMAGE /= "" /\ StartsWith(r.IMAGE, "http") THEN cell = Marker(r.IMAGE)
    ELSE cell = r.IMAGE

====
